---- MODULE Spec2Model ----
(***************************************************************************)
(* Employee directory console application: the bulk-data pipeline.         *)
(*                                                                         *)
(*   - storage: the PostgreSQL table "employees" (SERIAL id, UNIQUE        *)
(*     (full_name, birth_date)) as the SQL statements of the code use it;  *)
(*   - Employee.validate / saveToDB / batchInsert (models/Employee);       *)
(*   - DataGenerator.generateEmployees (utils/DataGenerator);              *)
(*   - CommandHandler.generateEmployeeListFileStreaming and                *)
(*     mode4_generateBulkData (commands/CommandHandler), the latter in its *)
(*     two forms: over the batch stream, and over the whole array with     *)
(*     global.progressCallback;                                            *)
(*   - the commands clear-data and drop with their confirmation flag       *)
(*     (Employee.deleteAll, DatabaseConnection.dropEmployeesTable) and     *)
(*     createEmployeesTable; MemoryMonitor.checkMemoryLimit;               *)
(*   - mode3_listAllEmployees with ensureHighPerformanceIndex, for two     *)
(*     runs at once;                                                       *)
(*   - the socket 'command' handler with its heartbeat timer, and the      *)
(*     socket 'disconnect' handler.                                        *)
(*                                                                         *)
(* A full name is a sequence of one-character strings, so that trim(),     *)
(* charAt(0) and ORDER BY full_name are computed and not assumed.          *)
(***************************************************************************)
EXTENDS Integers, Sequences, FiniteSets, TLC

VARIABLES
    table,      \* rows of employees: [id, full_name, birth_date, gender]
    idSeq,      \* last value handed out by the SERIAL sequence employees_id_seq
    bi,         \* the frame of the Employee.batchInsert call
    biStart,    \* history: the table when the batchInsert call was made
    biClean,    \* history: no other writer touched the table since the call
    sv,         \* outcome of the last Employee.saveToDB call
    gen,        \* the frame of DataGenerator.generateEmployees
    ex,         \* the frame of generateEmployeeListFileStreaming
    exStart,    \* history: the table when the export started
    exClean,    \* history: no write happened since the export started
    m4,         \* the frame of mode4_generateBulkData
    tableExists,\* the table employees (and its id sequence) exists
    assigned,   \* history: the ids given to inserted records, in insertion order
    cancel,     \* the client of the run in progress has disconnected
    progressCallback, \* global.progressCallback: null, or the closure of a client
    lg,         \* per client, the frame of mode4_generateBulkData (global callback)
    delivered,  \* history: progress events received, by sink and by source
    pgIndex,      \* the index idx_employees_high_performance_pagination
    cmd,        \* history: the last clear-data or drop command and what it did
    ox,         \* the frame of a second mode 3 run, up to its page loop
    hb          \* per client, the frame of the socket 'command' handler

\* the state of the runs that use global.progressCallback
legacyVars == <<progressCallback, lg, delivered>>

\* the state of what only the command handlers touch
commandVars == <<cmd, ox, hb>>

vars == <<table, idSeq, bi, biStart, biClean, sv, gen, ex, exStart, exClean, m4,
          tableExists, assigned, cancel, legacyVars, pgIndex, commandVars>>

----------------------------------------------------------------------------
(* Bounds of the model *)

MaxLen == 2          \* longest employees array handed to batchInsert
MaxBatchArg == 3     \* largest batchSize argument tried
MaxIdSeq == 4        \* the id sequence is followed up to this value
MaxRows == 3         \* most insert attempts that built the table an export starts from
MaxPageSize == 2     \* largest page size of an export
MaxBase == 3         \* largest baseCount given to the generator
MaxSpecial == 2      \* largest specialCount given to the generator
MaxAssigned == 5     \* most records ever inserted by single inserts
LargeCount == 101    \* rows of the large table an export is run over

----------------------------------------------------------------------------
(* Strings *)

Whitespace == {" "}

RECURSIVE TrimStart(_)
TrimStart(s) ==
    IF s = <<>> THEN <<>>
    ELSE IF Head(s) \in Whitespace THEN TrimStart(Tail(s)) ELSE s

RECURSIVE TrimEnd(_)
TrimEnd(s) ==
    IF s = <<>> THEN <<>>
    ELSE IF s[Len(s)] \in Whitespace THEN TrimEnd(SubSeq(s, 1, Len(s) - 1)) ELSE s

\* String.prototype.trim
Trim(s) == TrimEnd(TrimStart(s))

Min(a, b) == IF a < b THEN a ELSE b
Max(a, b) == IF a > b THEN a ELSE b

\* Math.floor(a / b), b # 0
FloorDiv(a, b) == IF b > 0 THEN a \div b ELSE (0 - a) \div (0 - b)

\* Math.round(100 * n / d), halves rounded up
RoundPercent(n, d) == (200 * n + d) \div (2 * d)

\* Array.prototype.slice(a, b), on a 1-based sequence
SliceIdx(n, k) == IF k < 0 THEN Max(n + k, 0) ELSE Min(k, n)
Slice(s, a, b) == SubSeq(s, SliceIdx(Len(s), a) + 1, SliceIdx(Len(s), b))

----------------------------------------------------------------------------
(* Employee.validate *)

\* birth dates a caller can hand in, and what moment(..., 'YYYY-MM-DD', true)
\* and isAfter(moment()) say of them
GoodDates == {"1990-07-22", "1985-03-15"}
FutureDates == {"2999-01-01"}
NoDate == ""

MomentIsValid(d) == d \in GoodDates \cup FutureDates
MomentIsAfterNow(d) == d \in FutureDates

Genders == {"Male", "Female"}

validate(emp) ==
    (IF emp.fullName = <<>> \/ Len(Trim(emp.fullName)) = 0
        THEN {"Full name is required and must be a non-empty string"} ELSE {})
    \cup
    (IF emp.birthDate = NoDate THEN {"Birth date is required"}
     ELSE IF ~MomentIsValid(emp.birthDate)
        THEN {"Birth date must be in YYYY-MM-DD format"}
     ELSE IF MomentIsAfterNow(emp.birthDate)
        THEN {"Birth date cannot be in the future"}
     ELSE {})
    \cup
    (IF emp.gender = "" \/ emp.gender \notin Genders
        THEN {"Gender must be either Male or Female"} ELSE {})

isValid(emp) == validate(emp) = {}

Employee(n, d, g) == [fullName |-> n, birthDate |-> d, gender |-> g]

\* the records the callers of this model hand in
ValidEmployees ==
    { Employee(<<"A", " ">>, "1990-07-22", "Female"),
      Employee(<<"B">>, "1990-07-22", "Male"),
      Employee(<<"A">>, "1985-03-15", "Female") }

InvalidEmployees ==
    { Employee(<<" ">>, "1990-07-22", "Male"),
      Employee(<<"B">>, "2999-01-01", "Male"),
      Employee(<<"B">>, "15/03/1985", "Female"),
      Employee(<<"A">>, "1985-03-15", "Other") }

Employees == ValidEmployees \cup InvalidEmployees

\* the records of the arrays handed to batchInsert
BatchEmployees ==
    ValidEmployees \cup
    { Employee(<<" ">>, "1990-07-22", "Male"),
      Employee(<<"A">>, "1985-03-15", "Other") }

----------------------------------------------------------------------------
(* Storage: table employees *)

\* CONSTRAINT unique_employee UNIQUE (full_name, birth_date)
Key(row) == <<row.full_name, row.birth_date>>
Keys(t) == { Key(r) : r \in t }

\* the values one record contributes to an INSERT statement
Values(emp) ==
    [full_name |-> Trim(emp.fullName), birth_date |-> emp.birthDate,
     gender |-> emp.gender]

NewRow(id, v) ==
    [id |-> id, full_name |-> v.full_name, birth_date |-> v.birth_date,
     gender |-> v.gender]

\* variant: the table created without CONSTRAINT unique_employee
InsertOneNoConstraint(t, s, v) ==
    [code |-> "ok", table |-> t \cup {NewRow(s + 1, v)}, idSeq |-> s + 1,
     rowCount |-> 1]

\* INSERT INTO employees ... VALUES ($1, $2, $3) RETURNING id, created_at
\* The default nextval() is taken before the constraint is checked.
InsertOne(t, s, v) ==
    IF <<v.full_name, v.birth_date>> \in Keys(t)
    THEN [code |-> "23505", table |-> t, idSeq |-> s + 1, rowCount |-> 0]
    ELSE [code |-> "ok", table |-> t \cup {NewRow(s + 1, v)}, idSeq |-> s + 1,
          rowCount |-> 1]

\* INSERT INTO employees ... VALUES (..), (..) ON CONFLICT (full_name,
\* birth_date) DO NOTHING RETURNING id: the rows are taken in order, a row
\* in conflict with the table or with an earlier row of the statement is
\* left out; an empty VALUES list is a syntax error.
RECURSIVE InsertRows(_, _, _, _)
InsertRows(t, s, vs, n) ==
    IF vs = <<>> THEN [code |-> "ok", table |-> t, idSeq |-> s, rowCount |-> n]
    ELSE LET v == Head(vs) IN
         IF <<v.full_name, v.birth_date>> \in Keys(t)
         THEN InsertRows(t, s + 1, Tail(vs), n)
         ELSE InsertRows(t \cup {NewRow(s + 1, v)}, s + 1, Tail(vs), n + 1)

\* variant: every row of the statement is stored, conflict or not
InsertWithoutConflictCheck(t, s, vs) ==
    IF vs = <<>> THEN [code |-> "42601", table |-> t, idSeq |-> s, rowCount |-> 0]
    ELSE [code |-> "ok",
          table |-> t \cup { NewRow(s + k, vs[k]) : k \in 1..Len(vs) },
          idSeq |-> s + Len(vs), rowCount |-> Len(vs)]

InsertOnConflictDoNothing(t, s, vs) ==
    IF vs = <<>> THEN [code |-> "42601", table |-> t, idSeq |-> s, rowCount |-> 0]
    ELSE InsertRows(t, s, vs, 0)

\* the ids of the rows a statement has added, in the order they were given
RECURSIVE IdsInOrder(_)
IdsInOrder(ids) ==
    IF ids = {} THEN <<>>
    ELSE LET least == CHOOSE i \in ids : \A j \in ids : i <= j
         IN  <<least>> \o IdsInOrder(ids \ {least})

NewIds(t, t2) == IdsInOrder({ r.id : r \in t2 \ t })

----------------------------------------------------------------------------
(* Employee.saveToDB *)

SvNone == [status |-> "none", reason |-> ""]

\* one call: validation, then one INSERT; fault = the query fails for a reason
\* other than the unique constraint (connection lost, timeout)
saveToDB(emp, fault) ==
    /\ idSeq < MaxIdSeq
    /\ Len(assigned) < MaxAssigned
    /\ IF ~isValid(emp)
       THEN /\ sv' = [status |-> "error", reason |-> "validation"]
            /\ UNCHANGED <<table, idSeq, assigned>>
       ELSE IF fault \/ ~tableExists
       THEN /\ sv' = [status |-> "error", reason |-> "storage"]
            /\ UNCHANGED <<table, idSeq, assigned>>
       ELSE LET res == InsertOne(table, idSeq, Values(emp)) IN
            /\ table' = res.table
            /\ idSeq' = res.idSeq
            /\ assigned' = assigned \o NewIds(table, res.table)
            /\ sv' = IF res.code = "23505"
                     THEN [status |-> "error", reason |-> "duplicate"]
                     ELSE [status |-> "saved", reason |-> ""]
    /\ biClean' = (biClean /\ ~(bi.pc # "idle" /\ table' # table))
    /\ exClean' = (exClean /\ ~(ex.pc # "idle" /\ table' # table))
    /\ UNCHANGED <<bi, biStart, gen, ex, exStart, m4, tableExists, cancel, legacyVars, pgIndex, commandVars>>

SaveToDB == \E emp \in Employees, fault \in BOOLEAN : saveToDB(emp, fault)

----------------------------------------------------------------------------
(* global.progressCallback *)

\* the sockets with a command in progress
Clients == {"c1", "c2"}

\* global.progressCallback = null
NoCallback == "null"

\* who emits progress events: the runs of the clients, and the other callers
\* of Employee.batchInsert
Sources == Clients \cup {"user", "mode4"}

NothingDelivered == [c \in Clients |-> [src \in Sources |-> 0]]

\* if (typeof global.progressCallback === 'function') global.progressCallback({...}):
\* the closure outputs to the sink of the client that set it
deliver(d, callback, src) ==
    IF callback = NoCallback THEN d
    ELSE [d EXCEPT ![callback][src] = @ + 1]

----------------------------------------------------------------------------
(* Employee.batchInsert *)

\* const maxBatchSize = production ? 500 : 1000; the development value,
\* scaled by 500 to the arrays of the model
maxBatchSize == 2

BiIdle ==
    [pc |-> "idle", employees |-> <<>>, batchSize |-> 0, i |-> 0,
     insertedCount |-> 0, skippedCount |-> 0, batches |-> <<>>,
     error |-> "", validationErrors |-> {}, caller |-> "user"]

\* variant: the validation stops at the first record that fails
firstValidationError(employees) ==
    { index \in 1..Len(employees) :
        /\ ~isValid(employees[index])
        /\ \A j \in 1..(index - 1) : isValid(employees[j]) }

\* employees.forEach((emp, index) => ... validationErrors.push(`Employee ${index + 1}`))
validationErrors(employees) ==
    { index \in 1..Len(employees) : ~isValid(employees[index]) }

\* the synchronous head of the call, up to the first query
batchInsertEnter(employees, batchSize, caller) ==
    IF employees = <<>>
    THEN [BiIdle EXCEPT !.pc = "failed", !.error = "empty", !.caller = caller]
    ELSE IF validationErrors(employees) # {}
    THEN [BiIdle EXCEPT !.pc = "failed", !.error = "validation",
                        !.employees = employees, !.caller = caller,
                        !.validationErrors = validationErrors(employees)]
    ELSE [BiIdle EXCEPT !.pc = "loop", !.employees = employees, !.caller = caller,
                        !.batchSize = Min(batchSize, maxBatchSize)]

BatchInsertCall ==
    /\ bi.pc = "idle"
    /\ \E n \in 0..MaxLen, batchSize \in -1..MaxBatchArg :
         \E employees \in [1..n -> BatchEmployees] :
            /\ bi' = batchInsertEnter(employees, batchSize, "user")
            /\ biStart' = table
            /\ biClean' = TRUE
    /\ UNCHANGED <<table, idSeq, sv, gen, ex, exStart, exClean, m4, tableExists, assigned, cancel, legacyVars, pgIndex, commandVars>>

ValuesOf(batch) == [k \in 1..Len(batch) |-> Values(batch[k])]

\* variant: the statement without its ON CONFLICT clause: a row in conflict
\* aborts the statement with a unique violation
batchQueryPlainInsert(t, s, batch) ==
    LET res == InsertOnConflictDoNothing(t, s, ValuesOf(batch)) IN
    IF res.code = "ok" /\ res.rowCount < Len(batch)
    THEN [code |-> "23505", table |-> t, idSeq |-> s + Len(batch), rowCount |-> 0]
    ELSE res

\* the result of the statement of one sub-batch, as the code reads it
batchQuery(t, s, batch) == InsertOnConflictDoNothing(t, s, ValuesOf(batch))

\* variant: conflicts are not counted
skippedNone(batch, rowCount) == 0

\* results.skippedCount += (batch.length - result.rowCount)
skippedInBatch(batch, rowCount) == Len(batch) - rowCount

\* const batch = employees.slice(i, i + batchSize)
currentBatch(b) == Slice(b.employees, b.i, b.i + b.batchSize)

\* one turn of the for loop on the frame b: slice, query, account; the loop
\* condition is evaluated right after, and the call returns when it is false.
\* fault = the query fails for a reason other than its text (08006, connection
\* failure); a missing table fails it with 42P01.
batchInsertTurn(b, t, s, exists, fault) ==
    LET batch == currentBatch(b)
        res == batchQuery(t, s, batch)
        next == b.i + b.batchSize
    IN  IF fault \/ ~exists \/ res.code # "ok"
        THEN [bi |-> [b EXCEPT !.pc = "failed",
                               !.error = IF fault THEN "08006"
                                         ELSE IF ~exists THEN "42P01"
                                         ELSE res.code],
              table |-> t, idSeq |-> s]
        ELSE [bi |-> [b EXCEPT
                     !.insertedCount = @ + res.rowCount,
                     !.skippedCount = @ + skippedInBatch(batch, res.rowCount),
                     !.batches = Append(@,
                        [batchNumber |-> FloorDiv(b.i, b.batchSize) + 1,
                         recordsInBatch |-> Len(batch),
                         insertedInBatch |-> res.rowCount,
                         skippedInBatch |-> skippedInBatch(batch, res.rowCount)]),
                     !.i = next,
                     !.pc = IF next < Len(b.employees) THEN "loop" ELSE "done"],
              table |-> res.table, idSeq |-> res.idSeq]

batchInsertStep(fault) ==
    LET turn == batchInsertTurn(bi, table, idSeq, tableExists, fault)
    IN  /\ bi.pc = "loop"
        /\ bi' = turn.bi
        /\ table' = turn.table
        /\ idSeq' = turn.idSeq
        /\ assigned' = assigned \o NewIds(table, turn.table)
        /\ exClean' = (exClean /\ ~(ex.pc # "idle" /\ table' # table))
        /\ delivered' = IF turn.bi.pc = "failed" THEN delivered
                        ELSE deliver(delivered, progressCallback, bi.caller)
        /\ UNCHANGED <<progressCallback, lg>>

BatchInsertStep ==
    /\ bi.caller = "user"
    /\ idSeq + Len(currentBatch(bi)) <= MaxIdSeq
    /\ \E fault \in BOOLEAN : batchInsertStep(fault)
    /\ UNCHANGED <<biStart, biClean, sv, gen, ex, exStart, m4, tableExists, cancel, pgIndex, commandVars>>

\* the caller has the results, or the error, of the call
BatchInsertReturn ==
    /\ bi.caller = "user"
    /\ bi.pc \in {"done", "failed"}
    /\ bi' = BiIdle
    /\ UNCHANGED <<table, idSeq, biStart, biClean, sv, gen, ex, exStart, exClean, m4, tableExists, assigned, cancel, legacyVars, pgIndex, commandVars>>

----------------------------------------------------------------------------
(* The commands clear-data and drop (Employee.deleteAll,
   DatabaseConnection.dropEmployeesTable) and createEmployeesTable *)

\* SELECT COUNT(*) FROM employees
count(t) == Cardinality(t)

\* what a statement of another command does to the runs in progress
otherWriter(t2) ==
    /\ biClean' = (biClean /\ ~(bi.pc # "idle" /\ t2 # table))
    /\ exClean' = (exClean /\ ~(ex.pc # "idle" /\ t2 # table))

\* the index of the export is absent when the server starts; created counts
\* the CREATE INDEX statements that succeeded
NoIndex == [exists |-> FALSE, created |-> 0]

\* the command lines of clear-data and drop, as parseCommand splits them and
\* execute hands them over (the 'myApp' prefix removed)
ClearArgs ==
    { <<"clear-data">>, <<"clean">>, <<"clear-data", "confirm">>,
      <<"clean", "--confirm">>, <<"clear-data", "-y">>, <<"clear-data", "yes">>,
      <<"clean", "CONFIRM">> }
DropArgs ==
    { <<"drop">>, <<"delete-table">>, <<"drop", "confirm">>,
      <<"delete-table", "--confirm">>, <<"drop", "-y">>, <<"drop", "force">>,
      <<"drop", "--yes">> }

\* Array.prototype.includes
includes(args, x) == \E k \in 1..Len(args) : args[k] = x

\* variant: any second word confirms
hasSecondArgument(args) == Len(args) > 1

\* args.includes('confirm') || args.includes('--confirm') || args.includes('-y')
hasConfirmFlag(args) ==
    includes(args, "confirm") \/ includes(args, "--confirm") \/ includes(args, "-y")

NoCommand == [name |-> "none", args |-> <<>>, outcome |-> "", same |-> TRUE]

\* the whole command clear-data: the count (which fails when the table is
\* missing), the return on an empty table, the return without the flag, and
\* DELETE FROM employees: the rows go, the id sequence keeps its value
clearTable(args) ==
    LET outcome == IF ~tableExists THEN "error"
                   ELSE IF count(table) = 0 THEN "empty"
                   ELSE IF ~hasConfirmFlag(args) THEN "warned"
                   ELSE "deleted"
    IN  /\ table' = IF outcome = "deleted" THEN {} ELSE table
        /\ otherWriter(table')
        /\ cmd' = [name |-> "clear", args |-> args, outcome |-> outcome,
                   same |-> (table' = table)]
        /\ UNCHANGED <<idSeq, tableExists, assigned, bi, biStart, sv, gen, ex, exStart,
                       m4, cancel, legacyVars, pgIndex, ox, hb>>

DeleteAll == \E args \in ClearArgs : clearTable(args)

\* the whole command drop: the check that the table exists, the count, the
\* return without the flag, and DROP TABLE IF EXISTS employees CASCADE: the
\* sequence employees_id_seq is owned by the id column and is dropped with the
\* table, and so is the index on it
dropTable(args) ==
    LET outcome == IF ~tableExists THEN "missing"
                   ELSE IF ~hasConfirmFlag(args) THEN "warned"
                   ELSE "dropped"
        dropped == outcome = "dropped"
    IN  /\ table' = IF dropped THEN {} ELSE table
        /\ idSeq' = IF dropped THEN 0 ELSE idSeq
        /\ tableExists' = IF dropped THEN FALSE ELSE tableExists
        /\ pgIndex' = IF dropped THEN [pgIndex EXCEPT !.exists = FALSE] ELSE pgIndex
        /\ otherWriter(table')
        /\ cmd' = [name |-> "drop", args |-> args, outcome |-> outcome,
                   same |-> (table' = table /\ tableExists' = tableExists)]
        /\ UNCHANGED <<assigned, bi, biStart, sv, gen, ex, exStart, m4, cancel,
                       legacyVars, ox, hb>>

DropTable == \E args \in DropArgs : dropTable(args)

\* CREATE TABLE employees (id SERIAL PRIMARY KEY, ...) when the table does not
\* exist: a new sequence, starting at 1
createEmployeesTable(exists, s) ==
    IF exists THEN [tableExists |-> TRUE, idSeq |-> s]
    ELSE [tableExists |-> TRUE, idSeq |-> 0]

CreateTable ==
    /\ tableExists' = createEmployeesTable(tableExists, idSeq).tableExists
    /\ idSeq' = createEmployeesTable(tableExists, idSeq).idSeq
    /\ UNCHANGED <<table, assigned, bi, biStart, biClean, sv, gen, ex, exStart, exClean, m4, cancel, legacyVars, pgIndex, commandVars>>

----------------------------------------------------------------------------
(* Storage: reading pages *)

\* the order of characters under ORDER BY
Alphabet == <<" ", "A", "B", "C", "F", "J", "L", "M">>
CharRank(c) == CHOOSE k \in 1..Len(Alphabet) : Alphabet[k] = c

RECURSIVE NameLess(_, _)
NameLess(a, b) ==
    IF b = <<>> THEN FALSE
    ELSE IF a = <<>> THEN TRUE
    ELSE IF Head(a) = Head(b) THEN NameLess(Tail(a), Tail(b))
    ELSE CharRank(Head(a)) < CharRank(Head(b))

\* ORDER BY full_name ASC, id ASC
RowLess(r1, r2) ==
    \/ NameLess(r1.full_name, r2.full_name)
    \/ r1.full_name = r2.full_name /\ r1.id < r2.id

RowLeq(r1, r2) == r1 = r2 \/ RowLess(r1, r2)

\* the first limit rows of S in that order
RECURSIVE OrderByLimit(_, _)
OrderByLimit(S, limit) ==
    IF S = {} \/ limit = 0 THEN <<>>
    ELSE LET first == CHOOSE r \in S : \A q \in S : RowLeq(r, q)
         IN  <<first>> \o OrderByLimit(S \ {first}, limit - 1)

\* SELECT ... FROM employees WHERE id > $1 ORDER BY full_name ASC, id ASC LIMIT $2
QueryPage(t, lastId, limit) ==
    OrderByLimit({ r \in t : r.id > lastId }, limit)

----------------------------------------------------------------------------
(* CommandHandler.mode3_listAllEmployees / generateEmployeeListFileStreaming *)

\* file: what is at the export path ("none", "partial" once the write stream
\* has created it, "complete" once the stream has finished); queries: the page
\* queries issued; out: the messages given to the output callback
\* progress: the percentages of the progress messages output so far; header,
\* footer: the record counts written in the header ("Total Employees") and in
\* the footer ("Total Records"), reported: the recordCount of the download
\* message, -1 while not written
ExIdle ==
    [pc |-> "idle", totalCount |-> 0, batchSize |-> 0, processedCount |-> 0,
     lastId |-> 0, written |-> <<>>, pages |-> 0, error |-> "",
     file |-> "none", queries |-> 0, out |-> <<>>,
     progress |-> <<>>, header |-> -1, footer |-> -1, reported |-> -1,
     ixChecks |-> 0, ixOutcome |-> ""]

\* a second mode 3 run, of another client, followed up to the call of
\* generateEmployeeListFileStreaming; its page loop is the one of ex
OxIdle == [pc |-> "idle", totalCount |-> 0, ixChecks |-> 0, ixOutcome |-> ""]

\* variant: the cursor is the id of the last row of the page
lastRowId(lastId, rows) ==
    IF rows = <<>> THEN lastId ELSE rows[Len(rows)].id

RECURSIVE MaxIdOf(_, _)
\* lastId = Math.max(lastId, row.id) over the rows of a page
MaxIdOf(lastId, rows) ==
    IF rows = <<>> THEN lastId
    ELSE MaxIdOf(Max(lastId, Head(rows).id), Tail(rows))

\* variant: the export goes on whatever the count
mode3AlwaysExport(totalCount) ==
    [pc |-> "counted", out |-> <<"Found employees">>]

\* if (totalCount === 0) { output(warning 'No employees found'); return }
mode3AfterCount(totalCount) ==
    IF totalCount = 0
    THEN [pc |-> "norecords", out |-> <<"Found employees", "No employees found in the database.">>]
    ELSE [pc |-> "counted", out |-> <<"Found employees">>]

\* const totalCount = await Employee.count(), and what follows it; the count
\* of a missing table fails (42P01) and the command with it
Mode3Count ==
    /\ ex.pc = "idle"
    /\ ex' = IF ~tableExists
             THEN [ex EXCEPT !.pc = "failed", !.error = "42P01"]
             ELSE [ex EXCEPT !.totalCount = count(table),
                             !.pc = mode3AfterCount(count(table)).pc,
                             !.out = mode3AfterCount(count(table)).out]
    /\ exStart' = table
    /\ exClean' = TRUE
    /\ UNCHANGED <<table, idSeq, bi, biStart, biClean, sv, gen, m4, tableExists, assigned, cancel, legacyVars, pgIndex, commandVars>>

\* The outcomes of a failure, by where it happens.  A query that rejects, and
\* an 'error' event of the write stream once the close promise listens to it,
\* reach the catch block: the stream is destroyed, the file unlinked and the
\* error thrown.  An 'error' event of the write stream before that has no
\* listener: it is an uncaught exception, the catch block does not run and the
\* file stays as it is.
exportCatch(e, error) ==
    [e EXCEPT !.pc = "failed", !.error = error, !.file = "none"]

sinkErrorUnheard(e) ==
    [e EXCEPT !.pc = "crashed", !.error = "sink"]

ExportFaults == {"none", "storage", "sink"}

\* the stream is opened and the header written; batchSize is the page size
\* (50000 in the code, any size from 1 on here); the while condition is
\* evaluated for the first time
\* ensureHighPerformanceIndex, for the run with frame f.  ixChecks counts the
\* queries on pg_indexes of the run, ixOutcome is how the step ended: "exists"
\* (nothing to do), "created", or the code of the error its catch block turned
\* into a warning (08006 connection lost, 42P07 the index is already there,
\* 42P01 the table is gone).

\* variant: no catch block, the error ends the command
indexFailureThrown(f, code) ==
    [f EXCEPT !.pc = "failed", !.ixOutcome = code]

\* catch (error) { output(warning 'Could not create high-performance index') }
indexFailure(f, code) ==
    [f EXCEPT !.pc = "indexed", !.ixOutcome = code]

\* SELECT EXISTS (SELECT 1 FROM pg_indexes WHERE indexname = ...)
indexCheck(f, idx, fault) ==
    LET g == [f EXCEPT !.ixChecks = @ + 1] IN
    IF fault THEN indexFailure(g, "08006")
    ELSE IF idx.exists THEN [g EXCEPT !.pc = "indexed", !.ixOutcome = "exists"]
    ELSE [g EXCEPT !.pc = "creating"]

\* CREATE INDEX idx_employees_high_performance_pagination ON employees(full_name, id)
indexCreate(f, idx, exists, fault) ==
    IF fault THEN [f |-> indexFailure(f, "08006"), index |-> idx]
    ELSE IF ~exists THEN [f |-> indexFailure(f, "42P01"), index |-> idx]
    ELSE IF idx.exists THEN [f |-> indexFailure(f, "42P07"), index |-> idx]
    ELSE [f |-> [f EXCEPT !.pc = "indexed", !.ixOutcome = "created"],
          index |-> [exists |-> TRUE, created |-> idx.created + 1]]

EnsureIndexCheck ==
    /\ ex.pc = "counted"
    /\ \E fault \in BOOLEAN : ex' = indexCheck(ex, pgIndex, fault)
    /\ UNCHANGED <<table, idSeq, bi, biStart, biClean, sv, gen, exStart, exClean, m4,
                   tableExists, assigned, cancel, legacyVars, pgIndex, commandVars>>

EnsureIndexCreate ==
    /\ ex.pc = "creating"
    /\ \E fault \in BOOLEAN :
         /\ ex' = indexCreate(ex, pgIndex, tableExists, fault).f
         /\ pgIndex' = indexCreate(ex, pgIndex, tableExists, fault).index
    /\ UNCHANGED <<table, idSeq, bi, biStart, biClean, sv, gen, exStart, exClean, m4,
                   tableExists, assigned, cancel, legacyVars, commandVars>>

\* the same steps of the second run
OtherMode3Count ==
    /\ ox.pc = "idle"
    /\ ox' = IF ~tableExists THEN [ox EXCEPT !.pc = "failed"]
             ELSE [ox EXCEPT !.totalCount = count(table),
                             !.pc = mode3AfterCount(count(table)).pc]
    /\ UNCHANGED <<table, idSeq, bi, biStart, biClean, sv, gen, ex, exStart, exClean, m4,
                   tableExists, assigned, cancel, legacyVars, pgIndex, cmd, hb>>

OtherEnsureIndexCheck ==
    /\ ox.pc = "counted"
    /\ \E fault \in BOOLEAN : ox' = indexCheck(ox, pgIndex, fault)
    /\ UNCHANGED <<table, idSeq, bi, biStart, biClean, sv, gen, ex, exStart, exClean, m4,
                   tableExists, assigned, cancel, legacyVars, pgIndex, cmd, hb>>

OtherEnsureIndexCreate ==
    /\ ox.pc = "creating"
    /\ \E fault \in BOOLEAN :
         /\ ox' = indexCreate(ox, pgIndex, tableExists, fault).f
         /\ pgIndex' = indexCreate(ox, pgIndex, tableExists, fault).index
    /\ UNCHANGED <<table, idSeq, bi, biStart, biClean, sv, gen, ex, exStart, exClean, m4,
                   tableExists, assigned, cancel, legacyVars, cmd, hb>>

\* await this.generateEmployeeListFileStreaming(filepath, totalCount, output)
OtherExportOpen ==
    /\ ox.pc = "indexed"
    /\ ox' = [ox EXCEPT !.pc = "streaming"]
    /\ UNCHANGED <<table, idSeq, bi, biStart, biClean, sv, gen, ex, exStart, exClean, m4,
                   tableExists, assigned, cancel, legacyVars, pgIndex, cmd, hb>>

\* variant: the loop goes on until a page comes back empty
whileAlways(processedCount, totalCount) == TRUE

\* while (processedCount < totalCount)
whileCondition(processedCount, totalCount) == processedCount < totalCount

\* Math.round((processedCount / totalCount) * 100)
progressPercentage(processedCount, totalCount) ==
    RoundPercent(processedCount, totalCount)

ExportOpen ==
    /\ ex.pc = "indexed"
    /\ \E batchSize \in 1..MaxPageSize :
         ex' = [ex EXCEPT
                  !.pc = IF whileCondition(0, ex.totalCount) THEN "loop" ELSE "closing",
                  !.batchSize = batchSize, !.file = "partial",
                  !.header = ex.totalCount,
                  !.processedCount = 0, !.lastId = 0]
    /\ UNCHANGED <<table, idSeq, bi, biStart, biClean, sv, gen, exStart, exClean, m4, tableExists, assigned, cancel, legacyVars, pgIndex, commandVars>>

\* one turn of the while loop: query a page, write it, advance the cursor.
\* fault = "storage": the query rejects; fault = "sink": a buffered write of
\* the header or of an earlier page fails while the query is awaited
exportPage(fault) ==
    LET currentBatchSize == Min(ex.batchSize, ex.totalCount - ex.processedCount)
        rows == QueryPage(table, ex.lastId, currentBatchSize)
        processed == ex.processedCount + Len(rows)
        e == [ex EXCEPT !.queries = @ + 1]
    IN  /\ ex.pc = "loop"
        /\ IF fault = "storage" \/ ~tableExists
           THEN ex' = exportCatch(e, "storage")
           ELSE IF fault = "sink"
           THEN ex' = sinkErrorUnheard(e)
           ELSE IF Len(rows) = 0
           THEN ex' = [e EXCEPT !.pc = "closing"]
           ELSE ex' = [e EXCEPT
                    !.written = @ \o rows,
                    !.lastId = MaxIdOf(ex.lastId, rows),
                    !.processedCount = processed,
                    !.pages = @ + 1,
                    !.progress = Append(@, progressPercentage(processed, ex.totalCount)),
                    !.pc = IF whileCondition(processed, ex.totalCount)
                           THEN "loop" ELSE "closing"]

ExportPage ==
    /\ \E fault \in ExportFaults : exportPage(fault)
    /\ UNCHANGED <<table, idSeq, bi, biStart, biClean, sv, gen, exStart, exClean, m4, tableExists, assigned, cancel, legacyVars, pgIndex, commandVars>>

\* the footer is written, the stream ended and the file measured; fault: the
\* write of the footer or the close fails, and the promise rejects
ExportClose ==
    /\ ex.pc = "closing"
    /\ \E fault \in BOOLEAN :
         ex' = IF fault THEN exportCatch(ex, "sink")
               ELSE [ex EXCEPT !.pc = "done", !.file = "complete",
                               !.footer = ex.processedCount,
                               !.reported = ex.totalCount]
    /\ UNCHANGED <<table, idSeq, bi, biStart, biClean, sv, gen, exStart, exClean, m4, tableExists, assigned, cancel, legacyVars, pgIndex, commandVars>>

----------------------------------------------------------------------------
(* DataGenerator *)

\* the reference pools, cut down to a few entries each
firstNames == [male |-> {<<"J">>}, female |-> {<<"M">>}]
lastNames == {<<"A">>, <<"F">>}
middleNames == {<<"L">>}

toLowerCase(c) ==
    IF c = "F" THEN "f" ELSE IF c = "A" THEN "a"
    ELSE IF c = "myApp" THEN "myapp" ELSE c

\* generateRandomBirthDate: a date between 1950-01-01 and 2005-12-31
generateRandomBirthDate == {"1990-07-22"}

\* variant: the surname drawn from the whole pool, whatever the letter
lastNamesUnfiltered(letter) == lastNames

\* lastNames.filter(name => name.charAt(0).toLowerCase() === letter.toLowerCase())
lastNamesWithLetter(letter) ==
    { name \in lastNames : toLowerCase(Head(name)) = toLowerCase(letter) }

\* generateRandomName: every name the random draws can give;
\* forceLastNameLetter = "" stands for null
generateRandomName(gender, forceLastNameLetter) ==
    LET firsts == IF gender = "Male" THEN firstNames.male ELSE firstNames.female
        lasts == IF forceLastNameLetter # ""
                    THEN lastNamesWithLetter(forceLastNameLetter)
                    ELSE lastNames
    IN  { last \o <<" ">> \o first \o <<" ">> \o middle :
            last \in lasts, first \in firsts, middle \in middleNames }

\* generateRandomEmployee: forceGender = "" stands for null
generateRandomEmployee(forceGender, forceLastNameLetter) ==
    LET genders == IF forceGender # "" THEN {forceGender} ELSE Genders
    IN  UNION { { Employee(n, d, g) :
                    n \in generateRandomName(g, forceLastNameLetter),
                    d \in generateRandomBirthDate } : g \in genders }

\* the special predicate (mode 5: gender = 'Male' AND full_name ILIKE 'F%')
IsSpecial(emp) ==
    emp.gender = "Male" /\ emp.fullName # <<>> /\ toLowerCase(Head(emp.fullName)) = "f"

GenIdle ==
    [pc |-> "idle", baseCount |-> 0, specialCount |-> 0, maleCount |-> 0,
     femaleCount |-> 0, i |-> 0, employees |-> <<>>]

\* variant: a third of the records are male
maleCountThird(baseCount) == baseCount \div 3

\* const maleCount = Math.floor(baseCount / 2)
maleCountOf(baseCount) == baseCount \div 2

\* variant: the other half computed like the first one
femaleCountHalved(baseCount) == baseCount \div 2

\* const femaleCount = baseCount - maleCount
femaleCountOf(baseCount) == baseCount - maleCountOf(baseCount)

GenerateEmployees ==
    /\ gen.pc \in {"idle", "done"}
    /\ \E baseCount \in 0..MaxBase, specialCount \in 0..MaxSpecial :
         gen' = [GenIdle EXCEPT !.pc = "male",
                                !.baseCount = baseCount,
                                !.specialCount = specialCount,
                                !.maleCount = maleCountOf(baseCount),
                                !.femaleCount = femaleCountOf(baseCount)]
    /\ UNCHANGED <<table, idSeq, bi, biStart, biClean, sv, ex, exStart, exClean, m4, tableExists, assigned, cancel, legacyVars, pgIndex, commandVars>>

\* for (i < maleCount) employees.push(this.generateRandomEmployee('Male'))
GenMale ==
    /\ gen.pc = "male" /\ gen.i < gen.maleCount
    /\ \E emp \in generateRandomEmployee("Male", "") :
         gen' = [gen EXCEPT !.employees = Append(@, emp), !.i = @ + 1]
    /\ UNCHANGED <<table, idSeq, bi, biStart, biClean, sv, ex, exStart, exClean, m4, tableExists, assigned, cancel, legacyVars, pgIndex, commandVars>>

\* for (i < femaleCount) employees.push(this.generateRandomEmployee('Female'))
GenFemale ==
    /\ gen.pc = "female" /\ gen.i < gen.femaleCount
    /\ \E emp \in generateRandomEmployee("Female", "") :
         gen' = [gen EXCEPT !.employees = Append(@, emp), !.i = @ + 1]
    /\ UNCHANGED <<table, idSeq, bi, biStart, biClean, sv, ex, exStart, exClean, m4, tableExists, assigned, cancel, legacyVars, pgIndex, commandVars>>

\* for (i < specialCount) employees.push(this.generateRandomEmployee('Male', 'F'))
GenSpecial ==
    /\ gen.pc = "special" /\ gen.i < gen.specialCount
    /\ \E emp \in generateRandomEmployee("Male", "F") :
         gen' = [gen EXCEPT !.employees = Append(@, emp), !.i = @ + 1]
    /\ UNCHANGED <<table, idSeq, bi, biStart, biClean, sv, ex, exStart, exClean, m4, tableExists, assigned, cancel, legacyVars, pgIndex, commandVars>>

\* [array[i], array[j]] = [array[j], array[i]], on a 1-based sequence
swap(array, i, j) ==
    [array EXCEPT ![i + 1] = array[j + 1], ![j + 1] = array[i + 1]]

\* shuffleArray: for (i = length - 1; i > 0; i--) swap with a random j in 0..i
GenShuffle ==
    /\ gen.pc = "shuffle" /\ gen.i > 0
    /\ \E j \in 0..gen.i :
         gen' = [gen EXCEPT !.employees = swap(@, gen.i, j), !.i = @ - 1]
    /\ UNCHANGED <<table, idSeq, bi, biStart, biClean, sv, ex, exStart, exClean, m4, tableExists, assigned, cancel, legacyVars, pgIndex, commandVars>>

\* a loop whose condition is false hands over to the next statement
GenLoopExit ==
    /\ \/ /\ gen.pc = "male" /\ gen.i >= gen.maleCount
          /\ gen' = [gen EXCEPT !.pc = "female", !.i = 0]
       \/ /\ gen.pc = "female" /\ gen.i >= gen.femaleCount
          /\ gen' = [gen EXCEPT !.pc = "special", !.i = 0]
       \/ /\ gen.pc = "special" /\ gen.i >= gen.specialCount
          /\ gen' = [gen EXCEPT !.pc = "shuffle", !.i = Len(gen.employees) - 1]
       \/ /\ gen.pc = "shuffle" /\ gen.i <= 0
          /\ gen' = [gen EXCEPT !.pc = "done"]
    /\ UNCHANGED <<table, idSeq, bi, biStart, biClean, sv, ex, exStart, exClean, m4, tableExists, assigned, cancel, legacyVars, pgIndex, commandVars>>

----------------------------------------------------------------------------
(* CommandHandler.mode4_generateBulkData, with the batch stream *)

\* generateEmployeesStream(baseCount, specialCount, 1000): the batch capacity,
\* scaled like maxBatchSize
streamBatchSize == 2

\* what the output callback is given: one record per message, with the
\* numbers the message text shows (0 where it shows none)
Message(type, what, value) ==
    [type |-> type, what |-> what, value |-> value, generated |-> 0,
     total |-> 0, batch |-> 0]

\* MemoryMonitor.checkMemoryLimit(limitMB), on a sample of process.memoryUsage()
checkMemoryLimit(heapUsedMB, limitMB) ==
    [current |-> heapUsedMB, limit |-> limitMB, exceeded |-> heapUsedMB > limitMB]

\* the heap sizes (MB) a sample can show
HeapSamples == {100, 300, 2000}

bulkLimitMB == 1024      \* checkMemoryLimit(isDeploymentMode ? 256 : 1024)
defaultLimitMB == 512    \* checkMemoryLimit(limitMB = 512)
highUsageMB == 200       \* memoryCheck.current > 200
\* if (batchCount % 10 === 0): every tenth batch, scaled by 5 to the runs of
\* the model
gcEvery == 2

\* no check made yet
NoCheck == [current |-> 0, limit |-> 0, exceeded |-> FALSE, gcRequests |-> 0]

\* lastCheck: the last memory check of the run and the calls of
\* MemoryMonitor.forceGarbageCollection that followed it
M4Idle ==
    [pc |-> "idle", baseCount |-> 0, specialCount |-> 0, remBase |-> 0,
     remSpecial |-> 0, progress |-> [percentage |-> 0, generated |-> 0, total |-> 0],
     totalInserted |-> 0, totalSkipped |-> 0, batchCount |-> 0, submitted |-> 0,
     committed |-> {}, out |-> <<>>, lastCheck |-> NoCheck]

\* the batches the stream can yield next: up to streamBatchSize records, each a
\* special one or an ordinary one while the requested counts allow it
RECURSIVE StreamBatches(_, _, _)
StreamBatches(remBase, remSpecial, room) ==
    IF room = 0 \/ remBase + remSpecial = 0
    THEN { [batch |-> <<>>, remBase |-> remBase, remSpecial |-> remSpecial] }
    ELSE UNION {
        (IF remBase > 0
         THEN { [rest EXCEPT !.batch = <<emp>> \o @] :
                  emp \in generateRandomEmployee("", "") \ generateRandomEmployee("Male", "F"),
                  rest \in StreamBatches(remBase - 1, remSpecial, room - 1) }
         ELSE {}),
        (IF remSpecial > 0
         THEN { [rest EXCEPT !.batch = <<emp>> \o @] :
                  emp \in generateRandomEmployee("Male", "F"),
                  rest \in StreamBatches(remBase, remSpecial - 1, room - 1) }
         ELSE {}) }

Mode4Start ==
    /\ m4.pc = "idle"
    /\ \E baseCount \in 1..MaxBase, specialCount \in 0..MaxSpecial :
         m4' = [M4Idle EXCEPT !.pc = "pull",
                  !.baseCount = baseCount, !.specialCount = specialCount,
                  !.remBase = baseCount, !.remSpecial = specialCount,
                  !.progress = [percentage |-> 0, generated |-> 0,
                                total |-> baseCount + specialCount],
                  !.committed = table,
                  !.out = <<Message("info", "=== Mode 4: Generating bulk data ===", 0)>>]
    /\ UNCHANGED <<table, idSeq, bi, biStart, biClean, sv, gen, ex, exStart, exClean, tableExists, assigned, cancel, legacyVars, pgIndex, commandVars>>

\* the messages after the loop: the results summary
m4Summary(m) ==
    << Message("success", "Bulk data generation completed!", 0),
       Message("data", "Total employees processed", m.baseCount + m.specialCount),
       Message("data", "Successfully inserted", m.totalInserted),
       Message("data", "Skipped (duplicates)", m.totalSkipped),
       Message("data", "Number of batches", m.batchCount),
       Message("success", "Mode 4 completed successfully!", 0) >>

\* const finalMemoryCheck = MemoryMonitor.checkMemoryLimit()
finalMemoryCheck(heapUsedMB) ==
    LET memoryCheck == checkMemoryLimit(heapUsedMB, defaultLimitMB)
    IN  [current |-> memoryCheck.current, limit |-> memoryCheck.limit,
         exceeded |-> memoryCheck.exceeded, gcRequests |-> 0]

\* for await (const { batch, progress } of stream): the stream ends, or yields
\* a batch that is handed to Employee.batchInsert(batch, batch.length)
Mode4Next ==
    /\ m4.pc = "pull"
    /\ IF m4.remBase + m4.remSpecial = 0
       THEN /\ \E heapUsedMB \in HeapSamples :
                 m4' = [m4 EXCEPT !.pc = "done", !.out = @ \o m4Summary(m4),
                                  !.lastCheck = finalMemoryCheck(heapUsedMB)]
            /\ UNCHANGED <<bi, biStart, biClean>>
       ELSE \E y \in StreamBatches(m4.remBase, m4.remSpecial, streamBatchSize) :
              LET generated == m4.progress.generated + Len(y.batch) IN
              /\ m4' = [m4 EXCEPT !.pc = "insert",
                          !.remBase = y.remBase, !.remSpecial = y.remSpecial,
                          !.submitted = @ + 1,
                          !.progress = [percentage |->
                                          RoundPercent(generated, m4.progress.total),
                                        generated |-> generated,
                                        total |-> m4.progress.total]]
              /\ bi' = batchInsertEnter(y.batch, Len(y.batch), "mode4")
              /\ biStart' = table
              /\ biClean' = TRUE
    /\ UNCHANGED <<table, idSeq, sv, gen, ex, exStart, exClean, tableExists, assigned, cancel, legacyVars, pgIndex, commandVars>>

\* the queries of the batchInsert call mode 4 is waiting for
Mode4BatchInsertStep ==
    /\ bi.caller = "mode4"
    /\ \E fault \in BOOLEAN : batchInsertStep(fault)
    /\ UNCHANGED <<biStart, biClean, sv, gen, ex, exStart, m4, tableExists, cancel, pgIndex, commandVars>>

\* variant: a failed batch is reported and the loop goes on with the next one
m4AfterBatchContinue(m, b, t) ==
    IF b.pc = "done"
    THEN [m EXCEPT !.pc = "pull",
            !.totalInserted = @ + b.insertedCount,
            !.totalSkipped = @ + b.skippedCount,
            !.batchCount = @ + 1,
            !.committed = t,
            !.out = Append(@,
                [type |-> "progress", what |-> "Progress", value |-> m.progress.percentage,
                 generated |-> m.progress.generated, total |-> m.progress.total,
                 batch |-> m.batchCount + 1])]
    ELSE [m EXCEPT !.pc = "pull",
            !.out = Append(@, Message("error", "Batch insert failed", 0))]

\* variant: the progress message written inside the every-tenth-batch block
m4AfterBatchProgressEveryTenth(m, b, t) ==
    IF b.pc = "done"
    THEN [m EXCEPT !.pc = "pull",
            !.totalInserted = @ + b.insertedCount,
            !.totalSkipped = @ + b.skippedCount,
            !.batchCount = @ + 1,
            !.committed = t,
            !.out = IF (m.batchCount + 1) % gcEvery = 0
                    THEN Append(@,
                        [type |-> "progress", what |-> "Progress",
                         value |-> m.progress.percentage,
                         generated |-> m.progress.generated, total |-> m.progress.total,
                         batch |-> m.batchCount + 1])
                    ELSE @]
    ELSE [m EXCEPT !.pc = "failed",
            !.out = Append(@, Message("error",
                "Command execution failed: Failed to generate bulk data: Batch insert failed", 0))]

\* the loop body after the await, or the catch blocks when batchInsert threw:
\* mode 4 rethrows and CommandHandler.execute reports the error
m4AfterBatch(m, b, t) ==
    IF b.pc = "done"
    THEN [m EXCEPT !.pc = "pull",
            !.totalInserted = @ + b.insertedCount,
            !.totalSkipped = @ + b.skippedCount,
            !.batchCount = @ + 1,
            !.committed = t,
            !.out = Append(@,
                [type |-> "progress", what |-> "Progress", value |-> m.progress.percentage,
                 generated |-> m.progress.generated, total |-> m.progress.total,
                 batch |-> m.batchCount + 1])]
    ELSE [m EXCEPT !.pc = "failed",
            !.out = Append(@, Message("error",
                "Command execution failed: Failed to generate bulk data: Batch insert failed", 0))]

\* const memoryCheck = MemoryMonitor.checkMemoryLimit(1024) after a batch, and
\* if (batchCount % 10 === 0) { if (memoryCheck.exceeded || memoryCheck.current
\* > 200) MemoryMonitor.forceGarbageCollection() }
m4MemorySafety(m, heapUsedMB) ==
    LET memoryCheck == checkMemoryLimit(heapUsedMB, bulkLimitMB)
    IN  [m EXCEPT !.lastCheck =
            [current |-> memoryCheck.current, limit |-> memoryCheck.limit,
             exceeded |-> memoryCheck.exceeded,
             gcRequests |->
                IF /\ m.batchCount % gcEvery = 0
                   /\ (memoryCheck.exceeded \/ memoryCheck.current > highUsageMB)
                THEN 1 ELSE 0]]

Mode4AfterBatch ==
    /\ m4.pc = "insert"
    /\ bi.caller = "mode4"
    /\ bi.pc \in {"done", "failed"}
    /\ LET m == m4AfterBatch(m4, bi, table) IN
       IF m.pc = "pull"
       THEN \E heapUsedMB \in HeapSamples : m4' = m4MemorySafety(m, heapUsedMB)
       ELSE m4' = m
    /\ UNCHANGED <<table, idSeq, bi, biStart, biClean, sv, gen, ex, exStart, exClean, tableExists, assigned, cancel, legacyVars, pgIndex, commandVars>>

----------------------------------------------------------------------------
(* CommandHandler.mode4_generateBulkData with global.progressCallback: the
   whole array is generated, then handed to Employee.batchInsert *)

\* DataGenerator.generateEmployees(1000000, 100), scaled to the runs of the model
legacyBaseCount == 2
legacySpecialCount == 1
\* Employee.batchInsert(employees, 1000)
legacyBatchSize == 1000

\* DataGenerator.generateEmployees as one synchronous call: every array the
\* random draws and the shuffle can give
generateEmployees(baseCount, specialCount) ==
    LET males == [1..maleCountOf(baseCount) -> generateRandomEmployee("Male", "")]
        females == [1..femaleCountOf(baseCount) -> generateRandomEmployee("Female", "")]
        specials == [1..specialCount -> generateRandomEmployee("Male", "F")]
        n == baseCount + specialCount
    IN  UNION { { [k \in 1..n |-> (m \o f \o sp)[perm[k]]] : perm \in Permutations(1..n) } :
                  m \in males, f \in females, sp \in specials }

LgIdle == [pc |-> "idle", bi |-> BiIdle]

\* the command up to its first await: the callback is set, the array
\* generated and batchInsert entered
LegacyStart(c) ==
    /\ lg[c].pc = "idle"
    /\ progressCallback' = c
    /\ \E employees \in generateEmployees(legacyBaseCount, legacySpecialCount) :
         lg' = [lg EXCEPT ![c] =
                  [pc |-> "insert",
                   bi |-> batchInsertEnter(employees, legacyBatchSize, c)]]
    /\ UNCHANGED <<table, idSeq, bi, biStart, biClean, sv, gen, ex, exStart, exClean,
                   m4, tableExists, assigned, cancel, delivered, pgIndex, commandVars>>

\* one turn of the loop of batchInsert for client c; when the call returns or
\* throws, the command goes on at once: global.progressCallback = null
LegacyBatch(c) ==
    /\ lg[c].pc = "insert"
    /\ \E fault \in BOOLEAN :
         LET turn == batchInsertTurn(lg[c].bi, table, idSeq, tableExists, fault) IN
         /\ table' = turn.table
         /\ idSeq' = turn.idSeq
         /\ assigned' = assigned \o NewIds(table, turn.table)
         /\ otherWriter(turn.table)
         /\ delivered' = IF turn.bi.pc = "failed" THEN delivered
                         ELSE deliver(delivered, progressCallback, c)
         /\ lg' = [lg EXCEPT ![c] =
                     [pc |-> IF turn.bi.pc = "loop" THEN "insert" ELSE turn.bi.pc,
                      bi |-> turn.bi]]
         /\ progressCallback' = IF turn.bi.pc = "loop" THEN progressCallback
                                ELSE NoCallback
    /\ UNCHANGED <<bi, biStart, sv, gen, ex, exStart, m4, tableExists, cancel, pgIndex, commandVars>>

----------------------------------------------------------------------------
(* socket.on('disconnect') *)

NoCancel == [raised |-> FALSE, submitted |-> 0, queries |-> 0]

\* the client of the run in progress goes away: the handler logs the event,
\* no run is told; cancel keeps where the runs were at that moment
Disconnect ==
    /\ ~cancel.raised
    /\ m4.pc \in {"pull", "insert"} \/ ex.pc \in {"counted", "creating", "indexed", "loop", "closing"}
    /\ cancel' = [raised |-> TRUE, submitted |-> m4.submitted, queries |-> ex.queries]
    /\ UNCHANGED <<table, idSeq, bi, biStart, biClean, sv, gen, ex, exStart, exClean,
                   m4, tableExists, assigned, legacyVars, pgIndex, commandVars>>

----------------------------------------------------------------------------
(* socket.on('command'): the heartbeat of long operations *)

\* the command lines a client sends
CommandLines ==
    { "", "myApp 3", "myApp 4", "myApp 5", "myApp 6", "3", "4", "myApp help",
      "help", "myApp 2", "myApp" }

\* parseCommand: the words of the line
parseCommand(command) ==
    CASE command = "" -> <<>>
      [] command = "myApp 3" -> <<"myApp", "3">>
      [] command = "myApp 4" -> <<"myApp", "4">>
      [] command = "myApp 5" -> <<"myApp", "5">>
      [] command = "myApp 6" -> <<"myApp", "6">>
      [] command = "myApp 2" -> <<"myApp", "2">>
      [] command = "myApp help" -> <<"myApp", "help">>
      [] command = "myApp" -> <<"myApp">>
      [] OTHER -> <<command>>

\* ['3', '4', '5', '6'].includes(args[0])
isLongOperation(args) == args[1] \in {"3", "4", "5", "6"}

\* CommandHandler.execute: the 'myApp' prefix is removed when a word follows
\* it, and the first word left names the command
RECURSIVE modeOf(_)
modeOf(args) ==
    IF args = <<>> THEN ""
    ELSE IF toLowerCase(args[1]) = "myapp" /\ Len(args) > 1 THEN modeOf(Tail(args))
    ELSE args[1]

\* timer: the interval of startHeartbeat is set; mode: the command execute
\* runs; outcome: how the handler ended
HbIdle == [pc |-> "idle", args |-> <<>>, mode |-> "", timer |-> FALSE, outcome |-> ""]

\* the handler up to its first await: the early return on an empty line runs
\* the finally block at once
CommandReceived(c) ==
    /\ hb[c].pc \in {"idle", "finished"}
    /\ \E command \in CommandLines :
         LET args == parseCommand(command) IN
         hb' = [hb EXCEPT ![c] =
                  IF Len(args) = 0
                  THEN [pc |-> "finished", args |-> args, mode |-> "",
                        timer |-> FALSE, outcome |-> "empty"]
                  ELSE [pc |-> "executing", args |-> args, mode |-> modeOf(args),
                        timer |-> isLongOperation(args), outcome |-> ""]]
    /\ UNCHANGED <<table, idSeq, bi, biStart, biClean, sv, gen, ex, exStart, exClean, m4,
                   tableExists, assigned, cancel, legacyVars, pgIndex, cmd, ox>>

\* execute has returned, or the output callback has thrown: catch, then
\* finally { stopHeartbeat() }
CommandFinished(c) ==
    /\ hb[c].pc = "executing"
    /\ \E outcome \in {"success", "error"} :
         hb' = [hb EXCEPT ![c].pc = "finished", ![c].timer = FALSE,
                          ![c].outcome = outcome]
    /\ UNCHANGED <<table, idSeq, bi, biStart, biClean, sv, gen, ex, exStart, exClean, m4,
                   tableExists, assigned, cancel, legacyVars, pgIndex, cmd, ox>>

----------------------------------------------------------------------------
(* Specifications *)

\* the server has started: the table exists and is empty, nothing is running
InitIdle ==
    /\ table = {}
    /\ idSeq = 0
    /\ bi = BiIdle
    /\ biStart = {}
    /\ biClean = TRUE
    /\ sv = SvNone
    /\ gen = GenIdle
    /\ ex = ExIdle
    /\ exStart = {}
    /\ exClean = TRUE
    /\ m4 = M4Idle
    /\ tableExists = TRUE
    /\ assigned = <<>>
    /\ cancel = NoCancel
    /\ progressCallback = NoCallback
    /\ lg = [c \in Clients |-> LgIdle]
    /\ delivered = NothingDelivered
    /\ pgIndex = NoIndex
    /\ cmd = NoCommand
    /\ ox = OxIdle
    /\ hb = [c \in Clients |-> HbIdle]

\* the tables earlier inserts can have left: up to MaxRows insert attempts of
\* valid records, in any order
StoredValues == { Values(emp) : emp \in ValidEmployees } \cup
    { [full_name |-> <<"C">>, birth_date |-> "1990-07-22", gender |-> "Male"] }

InitPopulated ==
    /\ \E n \in 0..MaxRows : \E vs \in [1..n -> StoredValues] :
         LET res == InsertRows({}, 0, vs, 0) IN
         /\ table = res.table
         /\ idSeq = res.idSeq
         /\ assigned = NewIds({}, res.table)
    /\ bi = BiIdle
    /\ biStart = {}
    /\ biClean = TRUE
    /\ sv = SvNone
    /\ gen = GenIdle
    /\ ex = ExIdle
    /\ exStart = {}
    /\ exClean = TRUE
    /\ m4 = M4Idle
    /\ tableExists = TRUE
    /\ cancel = NoCancel
    /\ progressCallback = NoCallback
    /\ lg = [c \in Clients |-> LgIdle]
    /\ delivered = NothingDelivered
    /\ pgIndex = NoIndex
    /\ cmd = NoCommand
    /\ ox = OxIdle
    /\ hb = [c \in Clients |-> HbIdle]

\* a table of LargeCount rows, inserted one after the other with distinct
\* three-letter names
Letters == <<"A", "B", "C", "F", "J", "L", "M">>
LargeName(k) ==
    << Letters[((k \div 49) % 7) + 1], Letters[((k \div 7) % 7) + 1], Letters[(k % 7) + 1] >>

LargeTable ==
    { NewRow(k, [full_name |-> LargeName(k), birth_date |-> "1990-07-22",
                 gender |-> "Male"]) : k \in 1..LargeCount }

InitLarge ==
    /\ table = LargeTable
    /\ idSeq = LargeCount
    /\ assigned = [k \in 1..LargeCount |-> k]
    /\ bi = BiIdle
    /\ biStart = {}
    /\ biClean = TRUE
    /\ sv = SvNone
    /\ gen = GenIdle
    /\ ex = ExIdle
    /\ exStart = {}
    /\ exClean = TRUE
    /\ m4 = M4Idle
    /\ tableExists = TRUE
    /\ cancel = NoCancel
    /\ progressCallback = NoCallback
    /\ lg = [c \in Clients |-> LgIdle]
    /\ delivered = NothingDelivered
    /\ pgIndex = NoIndex
    /\ cmd = NoCommand
    /\ ox = OxIdle
    /\ hb = [c \in Clients |-> HbIdle]

\* an export of the large table, alone
NextLargeExport ==
    \/ Mode3Count \/ EnsureIndexCheck \/ EnsureIndexCreate
    \/ ExportOpen \/ ExportPage \/ ExportClose
SpecLargeExport == InitLarge /\ [][NextLargeExport]_vars

\* single inserts with the commands clear-data, drop and mode 1 (create table)
NextSchema == SaveToDB \/ DeleteAll \/ DropTable \/ CreateTable
SpecSchema == InitIdle /\ [][NextSchema]_vars

\* single and batch inserts, interleaved at the awaits
NextInsert == SaveToDB \/ BatchInsertCall \/ BatchInsertStep \/ BatchInsertReturn
SpecInsert == InitIdle /\ [][NextInsert]_vars

\* an export of a populated table, with single inserts by other clients
NextExport ==
    \/ Mode3Count \/ EnsureIndexCheck \/ EnsureIndexCreate
    \/ ExportOpen \/ ExportPage \/ ExportClose \/ SaveToDB \/ Disconnect
SpecExport == InitPopulated /\ [][NextExport]_vars

\* the same, where the continuation of an awaited query or write of the export
\* runs once the query or write has settled
ExportStep ==
    \/ Mode3Count \/ EnsureIndexCheck \/ EnsureIndexCreate
    \/ ExportOpen \/ ExportPage \/ ExportClose
SpecExportFair == SpecExport /\ WF_vars(ExportStep)

\* the record generator
NextGen ==
    GenerateEmployees \/ GenMale \/ GenFemale \/ GenSpecial \/ GenShuffle \/ GenLoopExit
SpecGen == InitIdle /\ [][NextGen]_vars

\* one bulk run of mode 4
NextBulk ==
    Mode4Start \/ Mode4Next \/ Mode4BatchInsertStep \/ Mode4AfterBatch \/ Disconnect

\* two clients run the bulk command with the global progress callback
NextLegacy == \E c \in Clients : LegacyStart(c) \/ LegacyBatch(c)
SpecLegacy == InitIdle /\ [][NextLegacy]_vars
SpecBulk == InitIdle /\ [][NextBulk]_vars

\* two mode 3 runs of two clients over a populated table
NextIndex ==
    \/ Mode3Count \/ EnsureIndexCheck \/ EnsureIndexCreate
    \/ ExportOpen \/ ExportPage \/ ExportClose
    \/ OtherMode3Count \/ OtherEnsureIndexCheck \/ OtherEnsureIndexCreate
    \/ OtherExportOpen
SpecIndex == InitPopulated /\ [][NextIndex]_vars

\* the 'command' handlers of two clients
NextSocket == \E c \in Clients : CommandReceived(c) \/ CommandFinished(c)
SpecSocket == InitIdle /\ [][NextSocket]_vars

\* the whole program
Next ==
    \/ NextInsert \/ NextExport \/ NextGen \/ NextBulk \/ NextSchema \/ NextLegacy
    \/ NextIndex \/ NextSocket
Spec == InitIdle /\ [][Next]_vars

----------------------------------------------------------------------------
(* Export: claims C1, C2 (under SpecExport) *)

WrittenAt(id) == { k \in 1..Len(ex.written) : ex.written[k].id = id }

ExportEnded == ex.pc \in {"closing", "done"}

\* C1: an export over N persisted records with totalExpected = N and no
\* concurrent write writes the row of every persisted record exactly once.
C1_EveryRecordExactlyOnce ==
    (ExportEnded /\ exClean /\ ex.totalCount = Cardinality(exStart)) =>
        /\ \A r \in exStart : Cardinality(WrittenAt(r.id)) = 1
        /\ \A k \in 1..Len(ex.written) : ex.written[k] \in exStart

\* what the code does keep of C1: no row is ever written twice
C1_NoRowTwice ==
    \A j, k \in 1..Len(ex.written) : ex.written[j].id = ex.written[k].id => j = k

\* C2: over a whole export run the rows are written in non-decreasing
\* (fullName, id) order, across page boundaries and for every page size.
C2_WrittenInSortOrder ==
    \A j, k \in 1..Len(ex.written) :
        j < k => RowLeq(ex.written[j], ex.written[k])

\* what the code does keep of C2: the order holds while nobody else writes
C2_SortedWithoutWriters ==
    exClean => C2_WrittenInSortOrder

----------------------------------------------------------------------------
(* Inserts: claims C3, C4, C5, C8 (under SpecInsert) *)

\* the (full_name, birth_date) a record is stored under
KeyOf(emp) == <<Trim(emp.fullName), emp.birthDate>>
BatchKeys == { KeyOf(bi.employees[k]) : k \in 1..Len(bi.employees) }

AllAlreadyPersisted ==
    /\ bi.employees # <<>>
    /\ \A k \in 1..Len(bi.employees) : KeyOf(bi.employees[k]) \in Keys(biStart)

\* the call has returned its results to the caller
Returned == bi.caller = "user" /\ bi.pc = "done"

\* C3: a batch whose records all have an already persisted key, submitted to
\* batchInsert with no other writer at work, is reported with insertedCount = 0
\* and skippedCount = batch size, and the persisted records are the same
\* after the call as before it.
C3_ReinsertIsIdempotent ==
    (bi.caller = "user" /\ AllAlreadyPersisted /\ biClean) =>
        /\ table = biStart
        /\ bi.pc = "done" =>
             bi.insertedCount = 0 /\ bi.skippedCount = Len(bi.employees)

C3_Witness ==
    /\ Returned /\ AllAlreadyPersisted /\ biClean
    /\ Len(bi.employees) = 2
    /\ Len(bi.batches) = 2
    /\ bi.skippedCount = 2

\* C4: a batchInsert call that returns (valid records, no other writer at
\* work) has persisted every record whose key was not persisted and skipped
\* the others: insertedCount is the number of newly persisted keys and
\* skippedCount the number of remaining records; and no call ever fails with
\* a uniqueness violation.
C4_InsertsNewSkipsDuplicates ==
    /\ (Returned /\ biClean) =>
          LET new == BatchKeys \ Keys(biStart) IN
          /\ bi.insertedCount = Cardinality(new)
          /\ bi.skippedCount = Len(bi.employees) - Cardinality(new)
          /\ biStart \subseteq table
          /\ Keys(table) = Keys(biStart) \cup BatchKeys
          /\ Cardinality(table) = Cardinality(biStart) + Cardinality(new)
    /\ (bi.caller = "user" /\ bi.pc = "failed") => bi.error # "23505"
    /\ (bi.caller = "user" /\ bi.pc = "failed" /\ bi.error = "42601") => bi.batchSize <= 0

C4_Witness ==
    /\ Returned /\ biClean
    /\ bi.insertedCount = 1
    /\ bi.skippedCount = 1
    /\ Len(bi.batches) = 1

\* C5: after any sequence of saveToDB and batchInsert calls, batches with
\* the same key twice included, no two persisted records have the same
\* (fullName, birthDate).
C5_UniqueNameAndBirthDate ==
    \A r1, r2 \in table :
        (r1.full_name = r2.full_name /\ r1.birth_date = r2.birth_date) => r1.id = r2.id

C5_Witness ==
    /\ Returned
    /\ Len(bi.employees) = 2
    /\ KeyOf(bi.employees[1]) = KeyOf(bi.employees[2])
    /\ bi.insertedCount = 1
    /\ sv.reason = "duplicate"

\* a record that fails record validation, in the words of the claim
FailsValidation(emp) ==
    \/ Trim(emp.fullName) = <<>>
    \/ emp.birthDate \notin GoodDates
    \/ emp.gender \notin {"Male", "Female"}

----------------------------------------------------------------------------
(* Generator: claims C6, C7 (under SpecGen) *)

Generated == gen.pc = "done"

SpecialAt == { k \in 1..Len(gen.employees) : IsSpecial(gen.employees[k]) }

\* C6: for all baseCount >= 0 and specialCount >= 0 the generator yields
\* exactly baseCount + specialCount records.
C6_YieldsBasePlusSpecial ==
    Generated => Len(gen.employees) = gen.baseCount + gen.specialCount

C6_Witness ==
    /\ Generated
    /\ gen.baseCount = 3
    /\ gen.specialCount = 2
    /\ Len(gen.employees) = 5

\* C7: among the records the generator yields for (baseCount, specialCount),
\* exactly specialCount satisfy the special predicate (Male and surname
\* starting with F) and the other baseCount do not.
C7_ExactlySpecialCountSpecial ==
    Generated => Cardinality(SpecialAt) = gen.specialCount

\* what the code does keep of C7: at least specialCount records are special
C7_AtLeastSpecialCount ==
    Generated => Cardinality(SpecialAt) >= gen.specialCount

----------------------------------------------------------------------------
(* Bulk run: claims C9, C10 (under SpecBulk) *)

Shown(what) == { k \in 1..Len(m4.out) : m4.out[k].what = what }

\* C9: when a storage error other than a uniqueness conflict occurs in
\* batch k of a bulk run, the run stops at once (no later batch is
\* submitted), the caller gets an error and no aggregate result, and the
\* records persisted by batches 1..k-1 stay persisted.
C9_StorageErrorAbortsRun ==
    /\ (bi.caller = "mode4" /\ bi.pc = "failed") =>
          /\ bi.error = "08006"
          /\ m4.pc \in {"insert", "failed"}
          /\ m4.submitted = m4.batchCount + 1
          /\ m4.committed \subseteq table
    /\ m4.pc = "failed" =>
          /\ bi.pc = "failed"
          /\ m4.out[Len(m4.out)].type = "error"
          /\ \A k \in 1..Len(m4.out) : m4.out[k].type # "data"

C9_Witness ==
    /\ m4.pc = "failed"
    /\ m4.batchCount = 1
    /\ m4.totalInserted >= 2
    /\ m4.remBase + m4.remSpecial > 0
    /\ m4.committed # {}

\* C10: when a bulk run fails at some batch, what is reported to the user
\* contains the inserted and skipped counts accumulated over the batches
\* completed before the failing one, together with the error.
C10_FailureReportsCounts ==
    (m4.pc = "failed" /\ m4.batchCount >= 1) =>
        /\ \E k \in Shown("Successfully inserted") : m4.out[k].value = m4.totalInserted
        /\ \E k \in Shown("Skipped (duplicates)") : m4.out[k].value = m4.totalSkipped
        /\ \E k \in 1..Len(m4.out) : m4.out[k].type = "error"

----------------------------------------------------------------------------
(* Export failures and the empty export: claims C11, C19 (under SpecExport) *)

\* the export has failed after the file was opened
ExportFailed == ex.pc \in {"failed", "crashed"}

\* C11: if a storage query or a sink write fails at any point after the
\* export file was opened (header, any page, footer, close), no file exists
\* at the export path once the export has failed: a failed export never
\* leaves a partial artifact behind.
C11_FailedExportLeavesNoFile ==
    ExportFailed => ex.file = "none"

\* what the code does keep of C11: an export that returns its error to the
\* caller has removed its file
C11_ReturnedErrorLeavesNoFile ==
    ex.pc = "failed" => ex.file = "none"

\* C19: an export requested when storage holds 0 records ends with the
\* distinct 'no records' outcome: no file is created, nothing is written to
\* it and no page query is issued.
C19_EmptyExportWritesNothing ==
    (ex.pc # "idle" /\ exStart = {} /\ ex.error # "42P01") =>
        /\ ex.pc = "norecords"
        /\ ex.file = "none"
        /\ ex.queries = 0
        /\ ex.written = <<>>
        /\ ex.out[Len(ex.out)] = "No employees found in the database."

C19_Witness ==
    /\ ex.pc = "norecords"
    /\ exStart = {}
    /\ ex.totalCount = 0
    /\ table # {}

----------------------------------------------------------------------------
(* Ids: claim C16 (under SpecSchema) *)

\* C16: across any sequence of inserts, clear-data, drop-table and
\* create-table operations, ids are assigned in strictly increasing order of
\* insertion and no id value is assigned to two different records.
C16_IdsNeverReused ==
    \A j, k \in 1..Len(assigned) : j < k => assigned[j] < assigned[k]

\* what the code does keep of C16: the ids of the rows that are stored
\* together are distinct, and clear-data alone never brings an id back
C16_StoredIdsDistinct ==
    \A r1, r2 \in table : r1.id = r2.id => r1 = r2

----------------------------------------------------------------------------
(* Conflicts on the write paths: claim C17 (under SpecInsert) *)

\* C17: a uniqueness conflict is never surfaced to the caller as an error,
\* neither by batchInsert nor by saveToDB: the write is absorbed as a skip.
C17_ConflictNeverAnError ==
    /\ sv.reason # "duplicate"
    /\ bi.error # "23505"

\* what the code does keep of C17: batchInsert never fails on a conflict
C17_BatchAbsorbsConflicts ==
    bi.error # "23505"

----------------------------------------------------------------------------
(* Configuration errors: claim C20 (under SpecInsert and SpecGen) *)

\* the batchInsert call in progress was given a batchSize <= 0
BadBatchSize ==
    bi.caller = "user" /\ bi.pc \in {"loop", "done", "failed"} /\ bi.batchSize <= 0

\* C20: insertion with batchSize <= 0 fails with an error and writes no
\* record to storage.
C20_BadBatchSizeWritesNothing ==
    BadBatchSize =>
        /\ bi.pc # "done"
        /\ biClean => table = biStart

\* what the code does keep of C20: a call with batchSize <= 0 never returns
\* results, it ends with an error
C20_BadBatchSizeNeverReturns ==
    BadBatchSize => bi.pc # "done"

\* the generation half of C20: generation with baseCount + specialCount <= 0
\* fails, it does not yield an (empty) result
C20_EmptyGenerationFails ==
    Generated => gen.baseCount + gen.specialCount > 0

----------------------------------------------------------------------------
(* Progress and memory checks of a bulk run: claims C14, C18 (under SpecBulk) *)

ProgressAt == { k \in 1..Len(m4.out) : m4.out[k].type = "progress" }

\* C14: in a bulk insertion run exactly one progress event is emitted for
\* each batch, after the storage write of that batch and before the next
\* batch is submitted, none per record; on completion the number of progress
\* events is the number of batches processed.
C14_OneProgressPerBatch ==
    /\ Cardinality(ProgressAt) = m4.batchCount
    /\ m4.pc = "insert" => Cardinality(ProgressAt) = m4.submitted - 1
    /\ m4.pc \in {"pull", "done"} => Cardinality(ProgressAt) = m4.submitted
    /\ \A k \in ProgressAt :
          m4.out[k].batch = Cardinality({ j \in ProgressAt : j <= k })
    /\ \A k \in ProgressAt : m4.out[k].generated <= m4.progress.generated

C14_Witness ==
    /\ m4.pc = "done"
    /\ m4.baseCount + m4.specialCount = 5
    /\ m4.batchCount = 3
    /\ Cardinality(ProgressAt) = 3
    /\ m4.totalInserted + m4.totalSkipped = 5

\* C18: a memory check returns exceeded = true when the sampled heap usage
\* is above the limit, and each check that returns exceeded = true is
\* followed by exactly one garbage-collection request before the run goes
\* on, each other check by none.
C18_ExceededCheckRequestsOneGc ==
    /\ m4.lastCheck.exceeded = (m4.lastCheck.current > m4.lastCheck.limit)
    /\ m4.lastCheck.gcRequests = IF m4.lastCheck.exceeded THEN 1 ELSE 0

\* what the code does keep of C18: exceeded is true exactly above the limit,
\* and a check is followed by at most one request
C18_ExceededAboveLimit ==
    /\ m4.lastCheck.exceeded = (m4.lastCheck.current > m4.lastCheck.limit)
    /\ m4.lastCheck.gcRequests <= 1

----------------------------------------------------------------------------
(* Laziness of the generator: claim C12 (under SpecGen) *)

\* C12: during a generate-and-insert run the number of records generated
\* and not yet submitted to storage never exceeds the batch size: the
\* generator is never more than one batch ahead of the inserter. (Nothing is
\* submitted before generateEmployees has returned its array.)
C12_AtMostOneBatchAhead ==
    Len(gen.employees) <= maxBatchSize

----------------------------------------------------------------------------
(* Overlapping bulk runs: claim C13 (under SpecLegacy) *)

\* the progress events run c has emitted: one per batch it has completed
EmittedBy(c) == Len(lg[c].bi.batches)

\* C13: when two bulk-insert invocations overlap, every progress event of an
\* invocation is delivered to the sink of that invocation and to no other,
\* and an invocation receives its events until it finishes itself.
C13_ProgressReachesOwnSink ==
    \A c \in Clients :
        /\ \A d \in Clients \ {c} : delivered[c][d] = 0
        /\ delivered[c][c] = EmittedBy(c)

\* what the code does keep of C13: an event is delivered at most once
C13_DeliveredAtMostOnce ==
    \A d \in Clients :
        \A c1, c2 \in Clients :
            delivered[c1][d] + (IF c1 = c2 THEN 0 ELSE delivered[c2][d]) <= EmittedBy(d)

----------------------------------------------------------------------------
(* Cancellation: claim C15 (under SpecBulk and SpecExport) *)

\* C15: a cancellation signal raised while an insertion or export run is in
\* progress is observed at the next boundary between batches or pages:
\* insertion submits no other batch, export queries no other page (the one
\* in flight apart) and does not keep its file.
C15_CancelStopsAtBoundary ==
    cancel.raised =>
        /\ m4.submitted = cancel.submitted
        /\ m4.pc # "done"
        /\ ex.queries <= cancel.queries + 1
        /\ ex.file # "complete"

\* the export half of C15 alone
C15_ExportStopsOnCancel ==
    cancel.raised =>
        /\ ex.queries <= cancel.queries + 1
        /\ ex.file # "complete"

----------------------------------------------------------------------------
(* Composition of the generated records: claims C21, C22 (under SpecGen) *)

WithGender(g) == { k \in 1..Len(gen.employees) : gen.employees[k].gender = g }

\* C21: for every baseCount >= 0 the numbers of Male and Female records
\* among the baseCount non-special records differ by at most 1.
C21_GendersSplitEvenly ==
    /\ gen.maleCount + gen.femaleCount = gen.baseCount
    /\ gen.maleCount - gen.femaleCount \in {-1, 0, 1}
    /\ Generated =>
          /\ Cardinality(WithGender("Female")) = gen.femaleCount
          /\ Cardinality(WithGender("Male")) = gen.maleCount + gen.specialCount

C21_Witness ==
    /\ Generated
    /\ gen.baseCount = 3
    /\ Cardinality(WithGender("Female")) = 2
    /\ Cardinality(WithGender("Male")) = 1 + gen.specialCount

\* the records the special step has pushed so far (before the shuffle)
SpecialStepRecords ==
    { k \in 1..Len(gen.employees) : k > gen.baseCount }

\* C22: every record produced by the special step is Male with a surname
\* starting with F, for every specialCount, also one larger than the number
\* of surnames of the pool that start with F.
C22_SpecialStepOnlySpecial ==
    /\ gen.pc = "special" =>
          /\ Cardinality(SpecialStepRecords) = gen.i
          /\ \A k \in SpecialStepRecords : IsSpecial(gen.employees[k])
    /\ Generated => Cardinality(SpecialAt) >= gen.specialCount

C22_Witness ==
    /\ gen.pc = "special"
    /\ gen.i = 2
    /\ gen.specialCount > Cardinality(lastNamesWithLetter("F"))
    /\ \A k \in SpecialStepRecords : IsSpecial(gen.employees[k])

----------------------------------------------------------------------------
(* Progress percentages: claim C23 (under SpecLargeExport) *)

\* C23: within one export run no two consecutive progress events carry the
\* same percentage: an event whose percentage equals the last emitted one
\* is suppressed.
C23_NoRepeatedPercentage ==
    \A k \in 1..(Len(ex.progress) - 1) : ex.progress[k] # ex.progress[k + 1]

\* what the code does keep of C23: the percentages never decrease and stay
\* within 0..100
C23_PercentagesNeverDecrease ==
    /\ \A k \in 1..(Len(ex.progress) - 1) : ex.progress[k] <= ex.progress[k + 1]
    /\ \A k \in 1..Len(ex.progress) : ex.progress[k] \in 0..100

----------------------------------------------------------------------------
(* The confirmation flag of clear-data and drop: claim C24 (under SpecSchema) *)

ConfirmationFlags == {"confirm", "--confirm", "-y"}

Unconfirmed(args) == \A k \in 1..Len(args) : args[k] \notin ConfirmationFlags

\* C24: a clear-data or drop command whose arguments hold none of 'confirm',
\* '--confirm', '-y' leaves the persisted records and the existence of the
\* table as they were before it.
C24_NoFlagNoDeletion ==
    (cmd.name \in {"clear", "drop"} /\ Unconfirmed(cmd.args)) => cmd.same

\* a clear-data command without the flag has run on a table with rows, and
\* they are still there
C24_Witness ==
    /\ cmd.name = "clear"
    /\ Unconfirmed(cmd.args)
    /\ Len(cmd.args) > 1
    /\ cmd.outcome = "warned"
    /\ table # {}

\* the same for drop
C24_WitnessDrop ==
    /\ cmd.name = "drop"
    /\ Unconfirmed(cmd.args)
    /\ Len(cmd.args) > 1
    /\ cmd.outcome = "warned"
    /\ tableExists

----------------------------------------------------------------------------
(* The cursor of the export: claim C25 (under SpecExport) *)

WrittenIds == { ex.written[k].id : k \in 1..Len(ex.written) }

LargestWrittenId ==
    IF ex.written = <<>> THEN 0
    ELSE CHOOSE i \in WrittenIds : \A j \in WrittenIds : j <= i

\* the cursor is the largest id written so far, and 0 before the first page
C25_CursorIsLargestWritten == ex.lastId = LargestWrittenId

\* a step never lowers the cursor; a page with rows raises it, and each of
\* its rows has an id above the cursor the page was queried with
C25_CursorStep ==
    /\ ex'.lastId >= ex.lastId
    /\ Len(ex'.written) > Len(ex.written) =>
         /\ ex'.lastId > ex.lastId
         /\ \A k \in (Len(ex.written) + 1)..Len(ex'.written) :
              ex'.written[k].id > ex.lastId

\* C25: during an export the cursor lastSeenId starts at 0, never decreases,
\* strictly increases with every non-empty page, after each page equals the
\* largest id among all rows written so far, and every row of a page has an
\* id greater than the cursor value the page was queried with.
C25_CursorFollowsWrittenIds ==
    [] C25_CursorIsLargestWritten /\ [][C25_CursorStep]_vars

\* two pages have been written while another client inserted a record, and
\* the first rows written were not in id order
C25_Witness ==
    /\ ex.pages >= 2
    /\ ~exClean
    /\ ex.written[1].id > ex.written[2].id

----------------------------------------------------------------------------
(* Termination of the export: claim C26 (under SpecExportFair) *)

ExportOver == ex.pc \in {"norecords", "done", "failed", "crashed"}

\* the loop is entered again only below totalCount, which is never exceeded
C26_WrittenWithinTotal ==
    /\ ex.processedCount <= ex.totalCount
    /\ Len(ex.written) = ex.processedCount
    /\ ex.pc = "loop" => ex.processedCount < ex.totalCount

\* a page without rows ends the loop
C26_EmptyPageStops ==
    (ex.pc = "loop" /\ ex'.queries > ex.queries /\ Len(ex'.written) = Len(ex.written))
        => ex'.pc # "loop"

\* C26: every export run terminates, also when other operations insert
\* records between pages: the page loop stops as soon as a page returns zero
\* rows or recordsWritten >= totalExpected, and recordsWritten never exceeds
\* totalExpected.
C26_ExportTerminates ==
    /\ [] C26_WrittenWithinTotal
    /\ [][C26_EmptyPageStops]_vars
    /\ <> ExportOver

\* an export has ended on an empty page, below totalCount, after another
\* client inserted a record between its pages
C26_Witness ==
    /\ ex.pc = "done"
    /\ ~exClean
    /\ ex.pages >= 2
    /\ ex.queries > ex.pages
    /\ ex.processedCount < ex.totalCount

----------------------------------------------------------------------------
(* The counts an export states: claim C27 (under SpecExport) *)

Completed == ex.pc = "done"

\* C27: when an export completes successfully, the record count of the
\* header, the one of the footer and the one reported with the download all
\* equal the number of data rows written to the file.
C27_StatedCountsAreRowsWritten ==
    Completed =>
        /\ ex.header = Len(ex.written)
        /\ ex.footer = Len(ex.written)
        /\ ex.reported = Len(ex.written)

\* the same when no record was written to storage during the export
C27_StatedCountsWithoutWriters ==
    (Completed /\ exClean) =>
        /\ ex.header = Len(ex.written)
        /\ ex.reported = Len(ex.written)

\* what the code does keep of C27: the footer states the rows written, the
\* header and the download message state the count taken before the export
C27_FooterIsRowsWritten ==
    Completed =>
        /\ ex.footer = Len(ex.written)
        /\ ex.header = ex.totalCount
        /\ ex.reported = ex.totalCount

----------------------------------------------------------------------------
(* The accounting of batchInsert: claim C28 (under SpecInsert) *)

RECURSIVE RecordsIn(_)
RecordsIn(batches) ==
    IF batches = <<>> THEN 0
    ELSE Head(batches).recordsInBatch + RecordsIn(Tail(batches))

\* a batchInsert call with a batch size of at least 1 has passed validation
InLoopOrAfter ==
    bi.caller = "user" /\ bi.pc \in {"loop", "done", "failed"} /\ bi.batchSize >= 1

\* C28: at every point of a batchInsert call with batch size >= 1,
\* insertedCount + skippedCount equals the number of records in the
\* sub-batches processed so far, the sub-batches are taken one at a time in
\* array order with batch numbers 1, 2, 3, ..., and when the call returns
\* insertedCount + skippedCount equals the number of records given.
C28_CountsAddUp ==
    InLoopOrAfter =>
        /\ bi.insertedCount + bi.skippedCount = RecordsIn(bi.batches)
        /\ RecordsIn(bi.batches) = Min(bi.i, Len(bi.employees))
        /\ bi.i = Len(bi.batches) * bi.batchSize
        /\ \A k \in 1..Len(bi.batches) :
              /\ bi.batches[k].batchNumber = k
              /\ bi.batches[k].recordsInBatch =
                   Len(Slice(bi.employees, (k - 1) * bi.batchSize, k * bi.batchSize))
              /\ bi.batches[k].insertedInBatch + bi.batches[k].skippedInBatch
                   = bi.batches[k].recordsInBatch
        /\ bi.pc = "done" =>
              bi.insertedCount + bi.skippedCount = Len(bi.employees)

\* a call of two sub-batches has returned, one record inserted and one skipped
C28_Witness ==
    /\ Returned
    /\ Len(bi.batches) = 2
    /\ bi.insertedCount = 1
    /\ bi.skippedCount = 1

----------------------------------------------------------------------------
(* The index step of an export: claim C29 (under SpecIndex) *)

IndexStepPcs == {"counted", "creating"}

\* what holds of the index step of the run with frame f
IndexStepOnce(f) ==
    /\ f.ixChecks <= 1
    /\ f.pc \in {"indexed", "streaming", "loop", "closing", "done"} => f.ixChecks = 1
    /\ f.ixOutcome = "created" => pgIndex.created >= 1

C29_IndexState ==
    /\ IndexStepOnce(ex)
    /\ IndexStepOnce(ox)
    /\ ex.queries >= 1 => (ex.ixChecks = 1 /\ ex.ixOutcome # "")
    /\ pgIndex.created <= 1
    /\ pgIndex.exists <=> pgIndex.created = 1
    /\ (ex.ixOutcome \in {"created", "42P07"} /\ ox.ixOutcome \in {"created", "42P07"}) =>
          /\ pgIndex.exists
          /\ ex.ixOutcome # ox.ixOutcome

\* a step of a run in its index step leaves the run going; no step of the
\* page loop looks at the index; an index that exists is left alone
C29_IndexStep ==
    /\ ex.pc \in IndexStepPcs => ex'.pc \in IndexStepPcs \cup {"indexed"}
    /\ ox.pc \in IndexStepPcs => ox'.pc \in IndexStepPcs \cup {"indexed"}
    /\ ex.pc \in {"loop", "closing"} =>
          (ex'.ixChecks = ex.ixChecks /\ ex'.ixOutcome = ex.ixOutcome)
    /\ pgIndex.exists => pgIndex' = pgIndex

\* C29: the supporting-index step of an export runs once, before the first
\* page query and never inside the page loop, creates nothing when the index
\* already exists, and never aborts the export: when two exports overlap and
\* both find the index absent, the index ends up created once and both
\* exports go on to write their pages.
C29_IndexStepNeverAborts ==
    [] C29_IndexState /\ [][C29_IndexStep]_vars

\* two runs both found the index absent; the second CREATE INDEX failed on the
\* index of the first, and both runs went on: one has written a page, the
\* other has reached its page loop
C29_Witness ==
    /\ ex.ixOutcome = "42P07"
    /\ ox.ixOutcome = "created"
    /\ pgIndex.created = 1
    /\ ex.pages >= 1
    /\ ox.pc = "streaming"

\* a run found the index in place and created nothing
C29_WitnessExists ==
    /\ ex.ixOutcome = "exists"
    /\ ex.pages >= 1
    /\ pgIndex.created = 1

----------------------------------------------------------------------------
(* The heartbeat of long operations: claim C30 (under SpecSocket) *)

LongModes == {"3", "4", "5", "6"}

\* the handler of client c is executing a long-running command
ExecutingLong(c) == hb[c].pc = "executing" /\ hb[c].mode \in LongModes

\* C30: a heartbeat timer is active exactly while a long-running command
\* (mode 3, 4, 5 or 6, as typed by the user with the 'myApp' prefix) is
\* executing: it is started before the command runs, and on every exit path
\* no timer remains once the handling of the command has finished.
C30_HeartbeatWhileLongCommand ==
    \A c \in Clients : hb[c].timer <=> ExecutingLong(c)

\* what the code does keep of C30: a timer is set only while a long-running
\* command executes, and none is left once the handler has finished, however
\* it finished
C30_NoTimerOnceFinished ==
    \A c \in Clients :
        /\ hb[c].timer => ExecutingLong(c)
        /\ hb[c].pc \in {"idle", "finished"} => ~hb[c].timer

\* the timer runs for a long-running command typed without the prefix
C30_TimerWithoutPrefix ==
    \A c \in Clients :
        (ExecutingLong(c) /\ hb[c].args[1] # "myApp") => hb[c].timer

====
